---------------------------- MODULE Spec2Model ----------------------------
(***************************************************************************)
(* State-machine model of the front-end components of rainbow_taxi:        *)
(*   - TestimonialsSlider (src/js/components.js 112-220)                   *)
(*   - ScrollReveal       (src/js/components.js 540-567)                   *)
(*   - ScrollAnimationController (src/js/animations.js 217-284)            *)
(*   - IntersectionAnimationController (src/js/animations.js 471-530)      *)
(*   - TaxiWebsiteApp resize handler   (src/unnamed/part_000 253-273)      *)
(*   - Navigation: mobile menu, links  (src/js/components.js 9-70)         *)
(*   - FormHandler                     (src/js/components.js 297-499)      *)
(*   - CounterAnimation                (src/js/components.js 570-624)      *)
(* The components share no state; every specification describes a page     *)
(* that holds one of them, the others finding none of their elements.      *)
(* JavaScript numbers are integers plus NaN; a handler that throws stops   *)
(* at the throwing statement and keeps the assignments made before it.     *)
(***************************************************************************)
EXTENDS Integers, Sequences, FiniteSets

(***************************************************************************)
(* Bounds of the model                                                     *)
(***************************************************************************)
\* largest number of .testimonial-card elements in the page
MaxSlides == 3
\* largest number of #testimonial-dots .dot elements in the page
MaxDots == 2
\* how many interval timers the browser hands out before the model stops
MaxTimers == 2
\* direct goToSlide(i) calls take i in -MaxArg..MaxArg
MaxArg == 3

\* largest number of .reveal elements in the page
MaxReveal == 2
\* largest number of [data-aos] elements in the page
MaxAos == 1
\* most animation timeouts pending for one [data-aos] element
MaxPending == 2
\* largest number of elements the IntersectionAnimationController finds
MaxObserved == 4
\* how many resize timeouts the browser hands out before the model stops
MaxResizes == 3
\* the resize handler is followed for this many ms
MaxNow == 600
\* time passes in steps of these many ms
TimeSteps == {50, 100, 250}
\* largest number of input fields in a form
MaxFields == 2
\* most submitForm() calls in flight at once
MaxInFlight == 2
\* largest number of [data-count] elements in the page
MaxCounters == 2

\* the input types the validation tells apart
FieldTypes == {"text", "email", "tel"}
\* a field's value, as validateField sees it: empty after trim(), passing
\* the format test of its type, or non-empty and failing it
FieldValues(type) ==
  IF type = "text" THEN {"empty", "good"} ELSE {"empty", "good", "bad"}

\* the href attributes a .nav-link can carry, as strings cut after the
\* first character
Hrefs == {<<"#", "home">>, <<"#", "fleet">>, <<"a", "bout.html">>}

\* document Y positions of the tops of the .reveal elements
ElementTops == {0, 120, 260}
\* window.scrollY values
ScrollYs == {0, 100, 200}
\* window.innerHeight values
InnerHeights == {100, 200}

\* clientX values of touches; differences cover 0, 50, 51 and 101, both signs
SwipeXs == {0, 50, 101}

(***************************************************************************)
(* JavaScript arithmetic                                                   *)
(***************************************************************************)
\* the value NaN, produced by x % 0; never equal to an index
NaN == -1000000

JsAdd(a, b) == IF a = NaN \/ b = NaN THEN NaN ELSE a + b

JsMul(a, b) == IF a = NaN \/ b = NaN THEN NaN ELSE a * b

\* the % operator: the remainder has the sign of the dividend, x % 0 is NaN
JsMod(a, n) ==
  IF a = NaN \/ n = NaN \/ n = 0 THEN NaN
  ELSE IF a >= 0 THEN a % n ELSE 0 - ((0 - a) % n)

Abs(x) == IF x < 0 THEN 0 - x ELSE x

(***************************************************************************)
(* State                                                                   *)
(***************************************************************************)
VARIABLES
  track,            \* TRUE iff #testimonial-track exists (this.track)
  totalSlides,      \* this.totalSlides = this.cards.length
  nDots,            \* this.dots.length
  currentSlide,     \* this.currentSlide
  autoPlayInterval, \* this.autoPlayInterval: 0 is null, else a timer id
  liveTimers,       \* the browser's live interval timers (ids)
  nextTimerId,      \* the id the next setInterval returns
  trackTransform,   \* track.style.transform: <<>> unset, <<x>> translateX(x%)
  activeDots,       \* indexes of the dots carrying class 'active'
  bound,            \* TRUE iff bindEvents() has registered the listeners
  touchStartX,      \* startX of the closure in handleTouchEvents
  hovering,         \* history: last mouse event on the track was mouseenter
  last,             \* history: the last event or call, and what it invoked
  \* ScrollReveal and the window it watches
  revealTops,       \* this.elements: element e |-> document Y of its top
  scrollY,          \* window.scrollY
  innerHeight,      \* window.innerHeight
  revealed,         \* the elements carrying class 'revealed'
  srBound,          \* TRUE iff ScrollReveal.bindEvents() has run
  inThrottle,       \* throttle wrapper: inside its 100 ms window
  throttleTrailing, \* throttle wrapper: an event came inside the window
  debounceArmed,    \* debounce wrapper: its 250 ms timeout is pending
  srLast,           \* history: last reveal event, whether a pass ran, and
                    \* the 'revealed' set that pass started from
  \* ScrollAnimationController (it reads the same window)
  saTops,           \* this.elements: element e |-> document Y of its top
  saBound,          \* TRUE iff bindEvents() has run
  saThrottle,       \* throttle wrapper: inside its 100 ms window
  saTrailing,       \* throttle wrapper: an event came inside the window
  saDebounce,       \* debounce wrapper: its 250 ms timeout is pending
  saPending,        \* element e |-> animateElement timeouts not yet fired
  saAnimated,       \* the elements carrying class 'aos-animate'
  saLeft,           \* history: elements triggered and later seen out of view
  saLast,           \* history: last event, whether a pass ran, and the
                    \* elements that pass called animateElement for
  \* IntersectionAnimationController
  ioSupported,      \* 'IntersectionObserver' in window
  ioObserver,       \* this.observer is not null
  ioObserved,       \* the targets the observer observes
  ioStyle,          \* element e |-> its inline opacity and transform
  ioTimers,         \* fallback timeouts not yet fired: element e |-> delay
  ioNow,            \* ms since construction, as far as timeouts have run
  ioLog,            \* history: the reveals triggered, in order, with times
  ioLast,           \* history: last step and the entries it delivered
  \* TaxiWebsiteApp resize handler
  rzTimeout,        \* resizeTimeout: 0 for undefined, else a timeout id
  rzLive,           \* the timeouts set and neither fired nor cleared
  rzNextId,         \* the next timeout id the browser hands out
  rzNow,            \* ms since the handler was set up
  rzAos,            \* typeof AOS !== 'undefined'
  rzParallax,       \* this.animationControllers.parallax exists
  rzLastResize,     \* history: time of the most recent resize event, or -1
  rzRuns,           \* history: handleResize() calls since that event
  rzLast,           \* history: last step and the calls it made
  \* Navigation
  navMenuEl,        \* #nav-menu exists
  navToggleEl,      \* #nav-toggle exists
  navLinks,         \* the hrefs of the .nav-link elements
  menuActive,       \* #nav-menu carries 'active'
  toggleActive,     \* #nav-toggle carries 'active'
  bodyMenuOpen,     \* body carries 'menu-open'
  navLast,          \* history: last event, the link it hit, the calls its
                    \* handler made, whether it called preventDefault, threw
  \* FormHandler
  fFields,          \* the form's fields: i |-> [required, type]
  fValues,          \* i |-> the field's value
  fErrors,          \* the fields carrying class 'error' and a .field-error
  fButton,          \* the form has a button[type="submit"]
  fDisabled,        \* button.disabled
  fLabel,           \* button.innerHTML: "markup", "submitting" or "send"
  fInFlight,        \* submitForm() promises not yet settled
  fLast,            \* history: last step, the calls it made, the toast it
                    \* showed, whether it reset the form, whether it threw
  \* CounterAnimation (it reads the same window)
  caCounters,       \* this.counters.length
  caHero,           \* the page has a .hero-stats element
  caHeroTop,        \* document Y of the top of .hero-stats
  caBound,          \* TRUE iff bindEvents() has run
  caHasAnimated,    \* this.hasAnimated
  caThrottle,       \* throttle wrapper: inside its 100 ms window
  caTrailing,       \* throttle wrapper: an event came inside the window
  caRunning,        \* the counters whose animation frame is requested
  caText,           \* counter c |-> its textContent: "markup", "partial"
                    \* (a value on the way) or "target"
  caStarts,         \* history: animateCounters() calls so far
  caLast            \* history: last step, whether it called checkCounters,
                    \* whether that called animateCounters

sliderVars == <<track, totalSlides, nDots, currentSlide, autoPlayInterval,
                liveTimers, nextTimerId, trackTransform, activeDots, bound,
                touchStartX, hovering, last>>

revealVars == <<revealTops, scrollY, innerHeight, revealed, srBound,
                inThrottle, throttleTrailing, debounceArmed, srLast>>

saVars == <<saTops, saBound, saThrottle, saTrailing, saDebounce, saPending,
            saAnimated, saLeft, saLast>>

\* the components other than the slider and ScrollReveal
ioVars == <<ioSupported, ioObserver, ioObserved, ioStyle, ioTimers, ioNow,
            ioLog, ioLast>>

rzVars == <<rzTimeout, rzLive, rzNextId, rzNow, rzAos, rzParallax,
            rzLastResize, rzRuns, rzLast>>

\* the slider and the three reveal components
coreVars == <<sliderVars, revealVars, saVars, ioVars>>

\* the application-level handlers
navVars == <<navMenuEl, navToggleEl, navLinks, menuActive, toggleActive,
             bodyMenuOpen, navLast>>

formVars == <<fFields, fValues, fErrors, fButton, fDisabled, fLabel,
              fInFlight, fLast>>

caVars == <<caCounters, caHero, caHeroTop, caBound, caHasAnimated, caThrottle,
            caTrailing, caRunning, caText, caStarts, caLast>>

laterVars == <<rzVars, navVars, formVars, caVars>>

extraVars == <<saVars, ioVars, laterVars>>

vars == <<sliderVars, revealVars, extraVars>>

(***************************************************************************)
(* TestimonialsSlider: the object as a record, its methods as operators.   *)
(* calls is the log of the methods and timer functions invoked by the      *)
(* running handler; threw is TRUE once the handler has thrown.             *)
(***************************************************************************)
Obj ==
  [track |-> track, totalSlides |-> totalSlides, nDots |-> nDots,
   currentSlide |-> currentSlide, autoPlayInterval |-> autoPlayInterval,
   liveTimers |-> liveTimers, nextTimerId |-> nextTimerId,
   trackTransform |-> trackTransform, activeDots |-> activeDots,
   bound |-> bound, calls |-> <<>>, threw |-> FALSE]

Log(m, name) == [m EXCEPT !.calls = Append(@, name)]

\* this.track.style.transform = ...: a TypeError when this.track is null
updateSlider(m) ==
  IF m.threw THEN m
  ELSE LET m1 == Log(m, "updateSlider")
           translateX == JsMul(0 - 1, JsMul(m.currentSlide, 100))
       IN IF ~m.track THEN [m1 EXCEPT !.threw = TRUE]
          ELSE [m1 EXCEPT !.trackTransform = <<translateX>>]

\* bug: the new dot gains 'active', the old one never loses it
updateDots_AddOnly(m) ==
  IF m.threw THEN m
  ELSE [Log(m, "updateDots") EXCEPT !.activeDots =
          @ \cup {k \in 0..(m.nDots - 1) : k = m.currentSlide}]

updateDots(m) ==
  IF m.threw THEN m
  ELSE [Log(m, "updateDots") EXCEPT !.activeDots =
          {k \in 0..(m.nDots - 1) : k = m.currentSlide}]

\* bug: a manual jump also pauses autoplay
goToSlide_Pauses(m, index) ==
  IF m.threw THEN m
  ELSE LET m1 == [Log(m, "goToSlide") EXCEPT !.currentSlide = index]
           m2 == updateDots(updateSlider(m1))
       IN IF m2.threw \/ m2.autoPlayInterval = 0 THEN m2
          ELSE [Log(m2, "clearInterval") EXCEPT
                  !.liveTimers = @ \ {m2.autoPlayInterval},
                  !.autoPlayInterval = 0]

goToSlide(m, index) ==
  IF m.threw THEN m
  ELSE updateDots(updateSlider(
         [Log(m, "goToSlide") EXCEPT !.currentSlide = index]))

nextSlide(m) ==
  IF m.threw THEN m
  ELSE updateDots(updateSlider(
         [Log(m, "nextSlide") EXCEPT !.currentSlide =
            JsMod(JsAdd(m.currentSlide, 1), m.totalSlides)]))

\* bug: (currentSlide - 1) % totalSlides, without adding totalSlides
prevSlide_NoWrap(m) ==
  IF m.threw THEN m
  ELSE updateDots(updateSlider(
         [Log(m, "prevSlide") EXCEPT !.currentSlide =
            JsMod(JsAdd(m.currentSlide, 0 - 1), m.totalSlides)]))

prevSlide(m) ==
  IF m.threw THEN m
  ELSE updateDots(updateSlider(
         [Log(m, "prevSlide") EXCEPT !.currentSlide =
            JsMod(JsAdd(JsAdd(m.currentSlide, 0 - 1), m.totalSlides),
                  m.totalSlides)]))

\* bug: >= threshold instead of > threshold
handleSwipe_Inclusive(m, startX, endX) ==
  IF m.threw THEN m
  ELSE LET threshold == 50
           diff == startX - endX
           m1 == Log(m, "handleSwipe")
       IN IF Abs(diff) >= threshold
          THEN IF diff > 0 THEN nextSlide(m1) ELSE prevSlide(m1)
          ELSE m1

handleSwipe(m, startX, endX) ==
  IF m.threw THEN m
  ELSE LET threshold == 50
           diff == startX - endX
           m1 == Log(m, "handleSwipe")
       IN IF Abs(diff) > threshold
          THEN IF diff > 0 THEN nextSlide(m1) ELSE prevSlide(m1)
          ELSE m1

\* bug: the handle is dropped but clearInterval is never called
stopAutoPlay_NoClear(m) ==
  IF m.threw THEN m
  ELSE [Log(m, "stopAutoPlay") EXCEPT !.autoPlayInterval = 0]

stopAutoPlay(m) ==
  IF m.threw THEN m
  ELSE LET m1 == Log(m, "stopAutoPlay")
       IN IF m1.autoPlayInterval # 0
          THEN [Log(m1, "clearInterval") EXCEPT
                  !.liveTimers = @ \ {m1.autoPlayInterval},
                  !.autoPlayInterval = 0]
          ELSE m1

\* bug: a new timer is armed without cancelling the one already held
startAutoPlay_NoCancel(m) ==
  IF m.threw THEN m
  ELSE LET m1 == Log(m, "startAutoPlay")
       IN [Log(m1, "setInterval") EXCEPT
             !.autoPlayInterval = m1.nextTimerId,
             !.liveTimers = @ \cup {m1.nextTimerId},
             !.nextTimerId = @ + 1]

startAutoPlay(m) ==
  IF m.threw THEN m
  ELSE LET m1 == stopAutoPlay(Log(m, "startAutoPlay"))
       IN [Log(m1, "setInterval") EXCEPT
             !.autoPlayInterval = m1.nextTimerId,
             !.liveTimers = @ \cup {m1.nextTimerId},
             !.nextTimerId = @ + 1]

bindEvents(m) == [Log(m, "bindEvents") EXCEPT !.bound = TRUE]

\* bug: init() without its guard
init_NoGuard(m) == startAutoPlay(bindEvents(m))

init(m) ==
  IF ~m.track \/ m.totalSlides = 0 THEN m
  ELSE startAutoPlay(bindEvents(m))

\* new TestimonialsSlider() over a page with the given elements; dots0 are
\* the dots the markup ships with class 'active'
NewSlider(hasTrack, cards, dots, dots0) ==
  init([track |-> hasTrack, totalSlides |-> cards, nDots |-> dots,
        currentSlide |-> 0, autoPlayInterval |-> 0, liveTimers |-> {},
        nextTimerId |-> 1, trackTransform |-> <<>>, activeDots |-> dots0,
        bound |-> FALSE, calls |-> <<>>, threw |-> FALSE])

(***************************************************************************)
(* Init: the page after new TestimonialsSlider()                           *)
(***************************************************************************)
SliderInit ==
  \E hasTrack \in BOOLEAN, cards \in 0..MaxSlides, dots \in 0..MaxDots :
    \E dots0 \in {{}, {0} \cap (0..(dots - 1))} :
      LET m == NewSlider(hasTrack, cards, dots, dots0)
      IN /\ track = m.track
         /\ totalSlides = m.totalSlides
         /\ nDots = m.nDots
         /\ currentSlide = m.currentSlide
         /\ autoPlayInterval = m.autoPlayInterval
         /\ liveTimers = m.liveTimers
         /\ nextTimerId = m.nextTimerId
         /\ trackTransform = m.trackTransform
         /\ activeDots = m.activeDots
         /\ bound = m.bound
         /\ touchStartX = 0
         /\ hovering = FALSE
         /\ last = [op |-> "new", args |-> <<>>, calls |-> m.calls,
                    threw |-> m.threw]


\* the handler's result becomes the state; the DOM elements stay as they are
Commit(m, op, args) ==
  /\ currentSlide' = m.currentSlide
  /\ autoPlayInterval' = m.autoPlayInterval
  /\ liveTimers' = m.liveTimers
  /\ nextTimerId' = m.nextTimerId
  /\ trackTransform' = m.trackTransform
  /\ activeDots' = m.activeDots
  /\ last' = [op |-> op, args |-> args, calls |-> m.calls, threw |-> m.threw]
  /\ UNCHANGED <<track, totalSlides, nDots, bound>>
  /\ UNCHANGED <<revealVars, extraVars>>

(***************************************************************************)
(* Page events: a listener runs only if bindEvents() registered it         *)
(***************************************************************************)
ClickPrev ==
  /\ Commit(IF bound THEN prevSlide(Obj) ELSE Obj, "click prev", <<>>)
  /\ UNCHANGED <<touchStartX, hovering>>

ClickNext ==
  /\ Commit(IF bound THEN nextSlide(Obj) ELSE Obj, "click next", <<>>)
  /\ UNCHANGED <<touchStartX, hovering>>

ClickDot ==
  \E index \in 0..(nDots - 1) :
    /\ Commit(IF bound THEN goToSlide(Obj, index) ELSE Obj, "click dot",
              <<index>>)
    /\ UNCHANGED <<touchStartX, hovering>>

\* bug: the mouseenter listener does not pause autoplay
MouseEnter_NoPause ==
  /\ track
  /\ Commit(Obj, "mouseenter", <<>>)
  /\ hovering' = TRUE
  /\ UNCHANGED touchStartX

MouseEnter ==
  /\ track
  /\ Commit(IF bound THEN stopAutoPlay(Obj) ELSE Obj, "mouseenter", <<>>)
  /\ hovering' = TRUE
  /\ UNCHANGED touchStartX

MouseLeave ==
  /\ track
  /\ bound => nextTimerId <= MaxTimers
  /\ Commit(IF bound THEN startAutoPlay(Obj) ELSE Obj, "mouseleave", <<>>)
  /\ hovering' = FALSE
  /\ UNCHANGED touchStartX

TouchStart ==
  \E x \in SwipeXs :
    /\ track
    /\ Commit(Obj, "touchstart", <<x>>)
    /\ touchStartX' = IF bound THEN x ELSE touchStartX
    /\ UNCHANGED hovering

TouchEnd ==
  \E x \in SwipeXs :
    /\ track
    /\ Commit(IF bound THEN handleSwipe(Obj, touchStartX, x) ELSE Obj,
              "touchend", <<touchStartX, x>>)
    /\ UNCHANGED <<touchStartX, hovering>>

\* a live interval timer fires: its callback calls this.nextSlide()
TimerTick ==
  \E t \in liveTimers :
    /\ Commit(nextSlide(Obj), "tick", <<>>)
    /\ UNCHANGED <<touchStartX, hovering>>

(***************************************************************************)
(* Direct calls of the public methods, bound or not                        *)
(***************************************************************************)
CallGoToSlide ==
  \E index \in (0 - MaxArg)..MaxArg :
    /\ Commit(goToSlide(Obj, index), "goToSlide()", <<index>>)
    /\ UNCHANGED <<touchStartX, hovering>>

CallNextSlide ==
  /\ Commit(nextSlide(Obj), "nextSlide()", <<>>)
  /\ UNCHANGED <<touchStartX, hovering>>

CallPrevSlide ==
  /\ Commit(prevSlide(Obj), "prevSlide()", <<>>)
  /\ UNCHANGED <<touchStartX, hovering>>

CallHandleSwipe ==
  \E startX \in SwipeXs, endX \in SwipeXs :
    /\ Commit(handleSwipe(Obj, startX, endX), "handleSwipe()",
              <<startX, endX>>)
    /\ UNCHANGED <<touchStartX, hovering>>

CallStartAutoPlay ==
  /\ nextTimerId <= MaxTimers
  /\ Commit(startAutoPlay(Obj), "startAutoPlay()", <<>>)
  /\ UNCHANGED <<touchStartX, hovering>>

CallStopAutoPlay ==
  /\ Commit(stopAutoPlay(Obj), "stopAutoPlay()", <<>>)
  /\ UNCHANGED <<touchStartX, hovering>>

(***************************************************************************)
(* ScrollReveal                                                            *)
(***************************************************************************)
\* element.getBoundingClientRect().top
RectTop(tops, y, e) == tops[e] - y

\* utils.js isInViewport(element, offset): the top edge is above the line
\* offset pixels over the bottom of the viewport
isInViewport(tops, y, h, e, offset) == RectTop(tops, y, e) < h - offset

\* bug: classList.toggle('revealed') instead of classList.add
checkElements_Toggle(rev, tops, y, h) ==
  LET inView == {e \in DOMAIN tops : isInViewport(tops, y, h, e, 50)}
  IN (rev \ inView) \cup (inView \ rev)

\* the class set after one pass over this.elements
checkElements(rev, tops, y, h) ==
  rev \cup {e \in DOMAIN tops : isInViewport(tops, y, h, e, 50)}

\* the page after new ScrollReveal(): init() returns early without elements,
\* else binds the listeners and runs the first pass
RevealInit ==
  \E n \in 0..MaxReveal :
    \E tops \in [1..n -> ElementTops], y \in ScrollYs, h \in InnerHeights :
      /\ revealTops = tops
      /\ scrollY = y
      /\ innerHeight = h
      /\ srBound = (n # 0)
      /\ revealed = IF n = 0 THEN {} ELSE checkElements({}, tops, y, h)
      /\ inThrottle = FALSE
      /\ throttleTrailing = FALSE
      /\ debounceArmed = FALSE
      /\ srLast = [op |-> "new", pass |-> (n # 0), was |-> {}]

\* one checkElements() pass with the window at scroll offset y, height h
Pass(op, y, h) ==
  /\ revealed' = checkElements(revealed, revealTops, y, h)
  /\ srLast' = [op |-> op, pass |-> TRUE, was |-> revealed]

NoPass(op) ==
  /\ revealed' = revealed
  /\ srLast' = [op |-> op, pass |-> FALSE, was |-> revealed]

\* a scroll event; the listener is throttle(() => this.checkElements(), 100)
Scroll ==
  \E y \in ScrollYs :
    /\ scrollY' = y
    /\ UNCHANGED <<revealTops, innerHeight, srBound, debounceArmed>>
    /\ UNCHANGED <<sliderVars, extraVars>>
    /\ IF srBound /\ ~inThrottle
       THEN /\ Pass("scroll", y, innerHeight)
            /\ inThrottle' = TRUE
            /\ UNCHANGED throttleTrailing
       ELSE /\ NoPass("scroll")
            /\ throttleTrailing' = srBound
            /\ UNCHANGED inThrottle

\* the throttle window ends: a trailing call runs if events came inside it
ThrottleWindowEnd ==
  /\ inThrottle
  /\ UNCHANGED <<revealTops, scrollY, innerHeight, srBound, debounceArmed>>
  /\ UNCHANGED <<sliderVars, extraVars>>
  /\ IF throttleTrailing
     THEN /\ Pass("throttle trailing", scrollY, innerHeight)
          /\ throttleTrailing' = FALSE
          /\ UNCHANGED inThrottle
     ELSE /\ NoPass("throttle end")
          /\ inThrottle' = FALSE
          /\ UNCHANGED throttleTrailing

\* a resize event; the listener is debounce(() => this.checkElements(), 250)
Resize ==
  \E h \in InnerHeights :
    /\ innerHeight' = h
    /\ debounceArmed' = srBound
    /\ NoPass("resize")
    /\ UNCHANGED <<revealTops, scrollY, srBound, inThrottle, throttleTrailing>>
    /\ UNCHANGED <<sliderVars, extraVars>>

\* 250 ms without a resize event have passed
DebounceFire ==
  /\ debounceArmed
  /\ debounceArmed' = FALSE
  /\ Pass("debounce fire", scrollY, innerHeight)
  /\ UNCHANGED <<revealTops, scrollY, innerHeight, srBound, inThrottle,
                 throttleTrailing>>
  /\ UNCHANGED <<sliderVars, extraVars>>

\* TaxiWebsiteApp.refreshAnimations(): scrollReveal.checkElements() directly
RefreshAnimations ==
  /\ Pass("refreshAnimations", scrollY, innerHeight)
  /\ UNCHANGED <<revealTops, scrollY, innerHeight, srBound, inThrottle,
                 throttleTrailing, debounceArmed>>
  /\ UNCHANGED <<sliderVars, extraVars>>

(***************************************************************************)
(* ScrollAnimationController                                               *)
(***************************************************************************)
\* ScrollAnimationController.isInViewport, threshold 0.1:
\* rect.top >= 0 && rect.top <= windowHeight * (1 - 0.1)
SAC_isInViewport(tops, y, h, e) ==
  /\ RectTop(tops, y, e) >= 0
  /\ 10 * RectTop(tops, y, e) <= 9 * h

\* bug: an element that already carries 'aos-animate' is skipped
SAC_checkElements_Once(tops, animated, y, h) ==
  {e \in DOMAIN tops : SAC_isInViewport(tops, y, h, e) /\ e \notin animated}

\* the elements one checkElements() pass calls animateElement for
SAC_checkElements(tops, animated, y, h) ==
  {e \in DOMAIN tops : SAC_isInViewport(tops, y, h, e)}

\* animateElement(element) for each of them: one more setTimeout each
SAC_animateElement(pending, triggered) ==
  [e \in DOMAIN pending |->
     IF e \in triggered THEN pending[e] + 1 ELSE pending[e]]

\* the page after new ScrollAnimationController()
ScrollAnimInit ==
  \E n \in 0..MaxAos :
    \E tops \in [1..n -> ElementTops], y \in ScrollYs, h \in InnerHeights :
      LET first == IF n = 0 THEN {} ELSE SAC_checkElements(tops, {}, y, h)
      IN /\ saTops = tops
         /\ scrollY = y
         /\ innerHeight = h
         /\ saBound = (n # 0)
         /\ saThrottle = FALSE
         /\ saTrailing = FALSE
         /\ saDebounce = FALSE
         /\ saPending = SAC_animateElement([e \in 1..n |-> 0], first)
         /\ saAnimated = {}
         /\ saLeft = {}
         /\ saLast = [op |-> "new", pass |-> (n # 0), triggered |-> first]

\* a page without [data-aos] elements
NoScrollAnim ==
  /\ saTops = <<>>
  /\ saBound = FALSE
  /\ saThrottle = FALSE
  /\ saTrailing = FALSE
  /\ saDebounce = FALSE
  /\ saPending = <<>>
  /\ saAnimated = {}
  /\ saLeft = {}
  /\ saLast = [op |-> "new", pass |-> FALSE, triggered |-> {}]

\* one checkElements() pass with the window at scroll offset y, height h
SaPass(op, y, h) ==
  LET triggered == SAC_checkElements(saTops, saAnimated, y, h)
  IN /\ \A e \in triggered : saPending[e] < MaxPending
     /\ saPending' = SAC_animateElement(saPending, triggered)
     /\ saLeft' = (saLeft \cup {e \in DOMAIN saTops :
                     /\ ~SAC_isInViewport(saTops, y, h, e)
                     /\ saPending[e] > 0 \/ e \in saAnimated})
     /\ saLast' = [op |-> op, pass |-> TRUE, triggered |-> triggered]

SaNoPass(op) ==
  /\ UNCHANGED <<saPending, saLeft>>
  /\ saLast' = [op |-> op, pass |-> FALSE, triggered |-> {}]

\* what the ScrollAnimationController actions leave alone
SaFrame ==
  /\ UNCHANGED <<saTops, saBound>>
  /\ UNCHANGED <<revealTops, revealed, srBound, inThrottle, throttleTrailing,
                 debounceArmed, srLast>>
  /\ UNCHANGED <<sliderVars, ioVars, laterVars>>

\* a scroll event; the listener is throttle(() => this.checkElements(), 100)
SaScroll ==
  \E y \in ScrollYs :
    /\ scrollY' = y
    /\ UNCHANGED <<innerHeight, saDebounce, saAnimated>>
    /\ SaFrame
    /\ IF saBound /\ ~saThrottle
       THEN /\ SaPass("scroll", y, innerHeight)
            /\ saThrottle' = TRUE
            /\ UNCHANGED saTrailing
       ELSE /\ SaNoPass("scroll")
            /\ saTrailing' = saBound
            /\ UNCHANGED saThrottle

\* the throttle window ends: a trailing call runs if events came inside it
SaThrottleWindowEnd ==
  /\ saThrottle
  /\ UNCHANGED <<scrollY, innerHeight, saDebounce, saAnimated>>
  /\ SaFrame
  /\ IF saTrailing
     THEN /\ SaPass("throttle trailing", scrollY, innerHeight)
          /\ saTrailing' = FALSE
          /\ UNCHANGED saThrottle
     ELSE /\ SaNoPass("throttle end")
          /\ saThrottle' = FALSE
          /\ UNCHANGED saTrailing

\* a resize event; the listener is debounce(() => this.checkElements(), 250)
SaResize ==
  \E h \in InnerHeights :
    /\ innerHeight' = h
    /\ saDebounce' = saBound
    /\ SaNoPass("resize")
    /\ UNCHANGED <<scrollY, saThrottle, saTrailing, saAnimated>>
    /\ SaFrame

\* 250 ms without a resize event have passed
SaDebounceFire ==
  /\ saDebounce
  /\ saDebounce' = FALSE
  /\ SaPass("debounce fire", scrollY, innerHeight)
  /\ UNCHANGED <<scrollY, innerHeight, saThrottle, saTrailing, saAnimated>>
  /\ SaFrame

\* a timeout set by animateElement fires: the element gets 'aos-animate'
\* and its animation style
SaAnimationTimeout ==
  \E e \in DOMAIN saTops :
    /\ saPending[e] > 0
    /\ saPending' = [saPending EXCEPT ![e] = @ - 1]
    /\ saAnimated' = saAnimated \cup {e}
    /\ saLast' = [op |-> "timeout", pass |-> FALSE, triggered |-> {}]
    /\ UNCHANGED <<scrollY, innerHeight, saThrottle, saTrailing, saDebounce,
                   saLeft>>
    /\ SaFrame

(***************************************************************************)
(* IntersectionAnimationController                                         *)
(***************************************************************************)
\* the inline style as the markup leaves it, as observeElements sets it and
\* as a reveal sets it
StyleUnset == [opacity |-> "", transform |-> ""]
StyleHidden == [opacity |-> "0", transform |-> "translateY(30px)"]
StyleRevealed == [opacity |-> "1", transform |-> "translateY(0)"]

\* animateElement(element)
IAC_animateElement(style, e) == [style EXCEPT ![e] = StyleRevealed]

\* observeElements(): every element is hidden and observed
observeElements(n) ==
  [style |-> [e \in 1..n |-> StyleHidden], observed |-> 1..n]

\* bug: every element gets the same delay
fallbackAnimation_NoStagger(n) == [e \in 1..n |-> 200]

\* fallbackAnimation(): element with forEach index e - 1 gets a timeout of
\* index * 200 ms
fallbackAnimation(n) == [e \in 1..n |-> (e - 1) * 200]

\* bug: the callback does not unobserve
observerCallback_KeepObserving(style, observed, entries) ==
  LET hits == {e \in DOMAIN entries : entries[e]}
  IN [style |-> [e \in DOMAIN style |->
                   IF e \in hits THEN IAC_animateElement(style, e)[e]
                   ELSE style[e]],
      observed |-> observed,
      triggered |-> hits]

\* bug: the callback keeps observing and hides a target that left
observerCallback_Toggle(style, observed, entries) ==
  [style |-> [e \in DOMAIN style |->
                IF e \notin DOMAIN entries THEN style[e]
                ELSE IF entries[e] THEN StyleRevealed ELSE StyleHidden],
   observed |-> observed,
   triggered |-> {e \in DOMAIN entries : entries[e]}]

\* the observer callback of createObserver(): entries maps the targets of
\* one notification to their isIntersecting
observerCallback(style, observed, entries) ==
  LET hits == {e \in DOMAIN entries : entries[e]}
  IN [style |-> [e \in DOMAIN style |->
                   IF e \in hits THEN IAC_animateElement(style, e)[e]
                   ELSE style[e]],
      observed |-> observed \ hits,
      triggered |-> hits]

\* the page after new IntersectionAnimationController()
ObserverInit ==
  \E n \in 0..MaxObserved, supported \in BOOLEAN :
    /\ ioSupported = supported
    /\ ioObserver = supported
    /\ ioObserved = IF supported THEN observeElements(n).observed ELSE {}
    /\ ioStyle = IF supported THEN observeElements(n).style
                 ELSE [e \in 1..n |-> StyleUnset]
    /\ ioTimers = IF supported THEN <<>> ELSE fallbackAnimation(n)
    /\ ioNow = 0
    /\ ioLog = <<>>
    /\ ioLast = [op |-> "new", entries |-> <<>>]

\* a page on which the controller is not constructed
NoObserver ==
  /\ ioSupported = TRUE
  /\ ioObserver = FALSE
  /\ ioObserved = {}
  /\ ioStyle = <<>>
  /\ ioTimers = <<>>
  /\ ioNow = 0
  /\ ioLog = <<>>
  /\ ioLast = [op |-> "new", entries |-> <<>>]

\* what the IntersectionAnimationController actions leave alone
IoFrame ==
  /\ UNCHANGED <<ioSupported, ioObserver>>
  /\ UNCHANGED <<sliderVars, revealVars, saVars, laterVars>>

\* the elements of s in increasing order
RECURSIVE InOrder(_)
InOrder(s) ==
  IF s = {} THEN <<>>
  ELSE LET x == CHOOSE y \in s : \A z \in s : y <= z
       IN <<x>> \o InOrder(s \ {x})

\* the browser notifies the observer: one entry for each target in S, a set
\* of observed targets, with its isIntersecting
ObserverNotify ==
  /\ ioObserver
  /\ \E S \in (SUBSET ioObserved) \ {{}} :
       \E entries \in [S -> BOOLEAN] :
         LET r == observerCallback(ioStyle, ioObserved, entries)
         IN /\ ioStyle' = r.style
            /\ ioObserved' = r.observed
            /\ ioLog' = ioLog \o [i \in 1..Cardinality(r.triggered) |->
                          [el |-> InOrder(r.triggered)[i], at |-> ioNow]]
            /\ ioLast' = [op |-> "callback", entries |-> entries]
  /\ UNCHANGED <<ioTimers, ioNow>>
  /\ IoFrame

\* the fallback timeout that is due first fires
FallbackTimeout ==
  /\ \E e \in DOMAIN ioTimers :
       /\ \A o \in DOMAIN ioTimers : ioTimers[e] <= ioTimers[o]
       /\ ioStyle' = [ioStyle EXCEPT ![e] = StyleRevealed]
       /\ ioNow' = ioTimers[e]
       /\ ioLog' = Append(ioLog, [el |-> e, at |-> ioTimers[e]])
       /\ ioTimers' = [o \in DOMAIN ioTimers \ {e} |-> ioTimers[o]]
       /\ ioLast' = [op |-> "timeout", entries |-> <<>>]
  /\ UNCHANGED ioObserved
  /\ IoFrame

(***************************************************************************)
(* TaxiWebsiteApp.setupResizeHandler / handleResize                        *)
(***************************************************************************)
\* bug: the listener does not clear the previous timeout
resizeListener_NoClear(live, timeout, id, now) ==
  [live |-> live \cup {[id |-> id, due |-> now + 250]},
   timeout |-> id]

\* the resize listener: clearTimeout(resizeTimeout), then
\* resizeTimeout = setTimeout(() => this.handleResize(), 250)
resizeListener(live, timeout, id, now) ==
  [live |-> {t \in live : t.id # timeout}
              \cup {[id |-> id, due |-> now + 250]},
   timeout |-> id]

\* handleResize(): the calls it makes
handleResize(aos, parallax) ==
  (IF aos THEN <<"AOS.refresh">> ELSE <<>>)
    \o (IF parallax THEN <<"parallax.handleResize">> ELSE <<>>)

\* the application after setupResizeHandler()
ResizeInit ==
  \E aos \in BOOLEAN, parallax \in BOOLEAN :
    /\ rzTimeout = 0
    /\ rzLive = {}
    /\ rzNextId = 1
    /\ rzNow = 0
    /\ rzAos = aos
    /\ rzParallax = parallax
    /\ rzLastResize = -1
    /\ rzRuns = 0
    /\ rzLast = [op |-> "new", calls |-> <<>>]

\* the resize handler where it is not followed: no resize event comes
ResizeIdle ==
  /\ rzTimeout = 0
  /\ rzLive = {}
  /\ rzNextId = 1
  /\ rzNow = 0
  /\ rzAos = FALSE
  /\ rzParallax = FALSE
  /\ rzLastResize = -1
  /\ rzRuns = 0
  /\ rzLast = [op |-> "new", calls |-> <<>>]

\* what the resize handler's actions leave alone
RzFrame ==
  /\ UNCHANGED <<rzAos, rzParallax>>
  /\ UNCHANGED <<coreVars, navVars, formVars, caVars>>

\* a resize event reaches the application's listener
AppResize ==
  /\ rzNextId <= MaxResizes
  /\ LET r == resizeListener(rzLive, rzTimeout, rzNextId, rzNow)
     IN /\ rzLive' = r.live
        /\ rzTimeout' = r.timeout
  /\ rzNextId' = rzNextId + 1
  /\ rzLastResize' = rzNow
  /\ rzRuns' = 0
  /\ rzLast' = [op |-> "resize", calls |-> <<>>]
  /\ UNCHANGED rzNow
  /\ RzFrame

\* a timeout that is due fires: handleResize() runs
AppResizeTimeout ==
  /\ \E t \in rzLive :
       /\ t.due = rzNow
       /\ rzLive' = rzLive \ {t}
  /\ rzRuns' = rzRuns + 1
  /\ rzLast' = [op |-> "handleResize", calls |-> handleResize(rzAos, rzParallax)]
  /\ UNCHANGED <<rzTimeout, rzNextId, rzNow, rzLastResize>>
  /\ RzFrame

\* time passes, not beyond the moment a live timeout is due
AppTimePasses ==
  /\ \E d \in TimeSteps :
       /\ rzNow + d <= MaxNow
       /\ \A t \in rzLive : rzNow + d <= t.due
       /\ rzNow' = rzNow + d
  /\ rzLast' = [op |-> "time", calls |-> <<>>]
  /\ UNCHANGED <<rzTimeout, rzLive, rzNextId, rzLastResize, rzRuns>>
  /\ RzFrame

(***************************************************************************)
(* Navigation: the mobile menu and the link listeners                      *)
(***************************************************************************)
\* the navigation as an object: the three class flags, and what the running
\* handler has done
NavObj ==
  [menu |-> menuActive, toggle |-> toggleActive, body |-> bodyMenuOpen,
   calls |-> <<>>, prevented |-> FALSE, threw |-> FALSE]

NavLog(n, name) == [n EXCEPT !.calls = Append(@, name)]

\* toggleMobileMenu(): this.navMenu.classList and this.navToggle.classList
\* are read without '?.', a missing element raises TypeError there
toggleMobileMenu(n) ==
  LET a == NavLog(n, "toggleMobileMenu")
  IN IF ~navMenuEl THEN [a EXCEPT !.threw = TRUE]
     ELSE IF ~navToggleEl THEN [a EXCEPT !.menu = ~@, !.threw = TRUE]
     ELSE [a EXCEPT !.menu = ~@, !.toggle = ~@, !.body = ~@]

\* closeMobileMenu()
closeMobileMenu(n) ==
  [NavLog(n, "closeMobileMenu") EXCEPT
     !.menu = IF navMenuEl THEN FALSE ELSE @,
     !.toggle = IF navToggleEl THEN FALSE ELSE @,
     !.body = FALSE]

\* the names the link's click listener can resolve: its parameter, the
\* forEach parameter, this, and the module's imports and classes; the
\* listener reads 'target', which none of them declares
ListenerScope == {"e", "link", "this", "debounce", "throttle",
                  "isInViewport", "smoothScrollTo"}

\* the click listener of a .nav-link: evaluating 'target' raises
\* ReferenceError before anything else runs
linkClick(n, href) ==
  IF "target" \notin ListenerScope
  THEN [NavLog(n, "link click listener") EXCEPT !.threw = TRUE]
  ELSE NavLog(n, "link click listener")

\* the page after new Navigation(); the markup ships without the classes
NavInit ==
  \E m \in BOOLEAN, t \in BOOLEAN, links \in SUBSET Hrefs :
    /\ navMenuEl = m
    /\ navToggleEl = t
    /\ navLinks = links
    /\ menuActive = FALSE
    /\ toggleActive = FALSE
    /\ bodyMenuOpen = FALSE
    /\ navLast = [op |-> "new", href |-> <<>>, calls |-> <<>>,
                  prevented |-> FALSE, threw |-> FALSE]

\* the navigation where it is not followed: nothing is clicked
NavIdle ==
  /\ navMenuEl = FALSE
  /\ navToggleEl = FALSE
  /\ navLinks = {}
  /\ menuActive = FALSE
  /\ toggleActive = FALSE
  /\ bodyMenuOpen = FALSE
  /\ navLast = [op |-> "new", href |-> <<>>, calls |-> <<>>,
                prevented |-> FALSE, threw |-> FALSE]

\* the handler's result becomes the state
NavCommit(n, op, href) ==
  /\ menuActive' = n.menu
  /\ toggleActive' = n.toggle
  /\ bodyMenuOpen' = n.body
  /\ navLast' = [op |-> op, href |-> href, calls |-> n.calls,
                 prevented |-> n.prevented, threw |-> n.threw]
  /\ UNCHANGED <<navMenuEl, navToggleEl, navLinks>>
  /\ UNCHANGED <<coreVars, rzVars, formVars, caVars>>

\* a click on #nav-toggle (inside the navbar)
NavToggleClick ==
  /\ navToggleEl
  /\ NavCommit(toggleMobileMenu(NavObj), "click toggle", <<>>)

\* a click on a .nav-link (inside the navbar), or Enter on the focused link,
\* which the application turns into focused.click()
NavLinkClick ==
  \E href \in navLinks :
    NavCommit(linkClick(NavObj, href), "click link", href)

\* navigation.toggleMobileMenu() called on the instance
CallToggleMobileMenu ==
  /\ NavCommit(toggleMobileMenu(NavObj), "toggleMobileMenu", <<>>)

\* navigation.closeMobileMenu() called on the instance
CallCloseMobileMenu ==
  /\ NavCommit(closeMobileMenu(NavObj), "closeMobileMenu", <<>>)

\* a click outside the navbar
NavOutsideClick ==
  /\ NavCommit(closeMobileMenu(NavObj), "click outside", <<>>)

\* the Escape key: the application calls navigation.closeMobileMenu()
NavEscape ==
  /\ NavCommit(closeMobileMenu(NavObj), "escape", <<>>)

(***************************************************************************)
(* FormHandler                                                             *)
(***************************************************************************)
\* the options the application constructs its FormHandlers with
FormOptions ==
  [showSuccess |-> TRUE, showError |-> TRUE, resetOnSuccess |-> TRUE]

\* the form as an object, and what the running handler has done
FormObj ==
  [values |-> fValues, errors |-> fErrors, disabled |-> fDisabled,
   label |-> fLabel, inFlight |-> fInFlight,
   calls |-> <<>>, toast |-> "", reset |-> FALSE, threw |-> FALSE]

FormLog(f, name) == [f EXCEPT !.calls = Append(@, name)]

\* validateField(field): the verdict
FieldIsValid(f, i) ==
  /\ ~(fFields[i].required /\ f.values[i] = "empty")
  /\ ~(fFields[i].type = "email" /\ f.values[i] = "bad")
  /\ ~(fFields[i].type = "tel" /\ f.values[i] = "bad")

\* validateField(field): setFieldError(field, isValid ? '' : message)
validateField(f, i) ==
  [FormLog(f, "validateField") EXCEPT
     !.errors = IF FieldIsValid(f, i) THEN @ \ {i} ELSE @ \cup {i}]

\* validateForm(): validateField on every [required] field, in order
RECURSIVE validateFrom(_, _)
validateFrom(f, i) ==
  IF i > Len(fFields) THEN f
  ELSE validateFrom(IF fFields[i].required THEN validateField(f, i) ELSE f,
                    i + 1)

validateForm(f) ==
  [form |-> validateFrom(FormLog(f, "validateForm"), 1),
   isValid |-> \A i \in DOMAIN fFields :
                 fFields[i].required => FieldIsValid(f, i)]

\* setSubmitState(button, isSubmitting); a null button raises TypeError
setSubmitState(f, isSubmitting) ==
  LET a == FormLog(f, "setSubmitState")
  IN IF ~fButton THEN [a EXCEPT !.threw = TRUE]
     ELSE IF isSubmitting
          THEN [a EXCEPT !.disabled = TRUE, !.label = "submitting"]
          ELSE [a EXCEPT !.disabled = FALSE, !.label = "send"]

showMessage(f, type) == [FormLog(f, "showMessage") EXCEPT !.toast = type]

\* submitForm(data): one more promise in flight
submitForm(f) == [FormLog(f, "submitForm") EXCEPT !.inFlight = @ + 1]

\* bug: handleSubmit goes on although validateForm() returned false
handleSubmit_NoValidate(f) ==
  LET v == validateForm(FormLog(f, "handleSubmit"))
      s == setSubmitState(v.form, TRUE)
  IN IF s.threw
     THEN setSubmitState(showMessage([s EXCEPT !.threw = FALSE], "error"),
                         FALSE)
     ELSE submitForm(s)

\* handleSubmit(e) up to its await: validation, then the submit state and
\* the submitForm() call; when setSubmitState throws, the catch block shows
\* the error toast and the finally block throws again
handleSubmit(f) ==
  LET v == validateForm(FormLog(f, "handleSubmit"))
      s == setSubmitState(v.form, TRUE)
  IN IF ~v.isValid THEN v.form
     ELSE IF s.threw
          THEN setSubmitState(
                 showMessage([s EXCEPT !.threw = FALSE], "error"), FALSE)
          ELSE submitForm(s)

\* handleSubmit(e) after its await: the promise resolved (ok) or rejected
afterSubmit(f, ok) ==
  LET a == [FormLog(f, "handleSubmit resumed") EXCEPT !.inFlight = @ - 1]
      s == IF FormOptions.showSuccess THEN showMessage(a, "success") ELSE a
      b == IF ~ok
           THEN IF FormOptions.showError THEN showMessage(a, "error") ELSE a
           ELSE IF FormOptions.resetOnSuccess
                THEN [FormLog(s, "form.reset") EXCEPT
                        !.values = [i \in DOMAIN @ |-> "empty"],
                        !.reset = TRUE]
                ELSE s
  IN setSubmitState(b, FALSE)

\* the page after new FormHandler(formId, options); the fields start empty
\* and unmarked, the button enabled with the label of the markup
FormInit ==
  \E n \in 1..MaxFields, button \in BOOLEAN :
    \E fields \in [1..n -> [required : BOOLEAN, type : FieldTypes]] :
      /\ fFields = fields
      /\ fValues = [i \in 1..n |-> "empty"]
      /\ fErrors = {}
      /\ fButton = button
      /\ fDisabled = FALSE
      /\ fLabel = "markup"
      /\ fInFlight = 0
      /\ fLast = [op |-> "new", calls |-> <<>>, toast |-> "",
                  reset |-> FALSE, threw |-> FALSE]

\* a page without the form
NoForm ==
  /\ fFields = <<>>
  /\ fValues = <<>>
  /\ fErrors = {}
  /\ fButton = FALSE
  /\ fDisabled = FALSE
  /\ fLabel = "markup"
  /\ fInFlight = 0
  /\ fLast = [op |-> "new", calls |-> <<>>, toast |-> "",
              reset |-> FALSE, threw |-> FALSE]

\* the handler's result becomes the state
FormCommit(f, op) ==
  /\ fValues' = f.values
  /\ fErrors' = f.errors
  /\ fDisabled' = f.disabled
  /\ fLabel' = f.label
  /\ fInFlight' = f.inFlight
  /\ fLast' = [op |-> op, calls |-> f.calls, toast |-> f.toast,
               reset |-> f.reset, threw |-> f.threw]
  /\ UNCHANGED <<fFields, fButton>>
  /\ UNCHANGED <<coreVars, rzVars, navVars, caVars>>

\* a submit event on the form (the button, Enter in a field, another submit
\* control, form.requestSubmit())
FormSubmit ==
  /\ fFields # <<>>
  /\ handleSubmit(FormObj).inFlight <= MaxInFlight
  /\ FormCommit(handleSubmit(FormObj), "submit")

\* the timeout of a submitForm() call fires and settles its promise
FormSettle ==
  /\ fInFlight > 0
  /\ \E ok \in BOOLEAN :
       FormCommit(afterSubmit(FormObj, ok),
                  IF ok THEN "resolved" ELSE "rejected")

\* the user edits a field: the input listener clears its error marker
FormInput ==
  \E i \in DOMAIN fFields :
    \E v \in FieldValues(fFields[i].type) :
      FormCommit([FormLog(FormObj, "clearFieldError") EXCEPT
                    !.values[i] = v, !.errors = @ \ {i}], "input")

\* a field loses focus: the blur listener validates it
FormBlur ==
  \E i \in DOMAIN fFields :
    FormCommit(validateField(FormObj, i), "blur")

(***************************************************************************)
(* CounterAnimation                                                        *)
(***************************************************************************)
\* the counter animation as an object, and what the running handler did
CounterObj ==
  [hasAnimated |-> caHasAnimated, running |-> caRunning, starts |-> caStarts,
   checked |-> FALSE, started |-> FALSE]

\* animateCounters(): a first animation frame is requested for every counter
animateCounters(c) ==
  [c EXCEPT !.running = 1..caCounters, !.starts = @ + 1, !.started = TRUE]

\* bug: checkCounters() without the hasAnimated test
checkCounters_NoGuard(c, y, h) ==
  LET a == [c EXCEPT !.checked = TRUE]
  IN IF caHero /\ isInViewport(<<caHeroTop>>, y, h, 1, 100)
     THEN [animateCounters(a) EXCEPT !.hasAnimated = TRUE]
     ELSE a

\* checkCounters() with the window at scroll offset y, height h
checkCounters(c, y, h) ==
  LET a == [c EXCEPT !.checked = TRUE]
  IN IF a.hasAnimated THEN a
     ELSE IF caHero /\ isInViewport(<<caHeroTop>>, y, h, 1, 100)
          THEN [animateCounters(a) EXCEPT !.hasAnimated = TRUE]
          ELSE a

\* the page after new CounterAnimation(); init() binds, it checks nothing
CounterInit ==
  \E n \in 0..MaxCounters, hero \in BOOLEAN, top \in ElementTops,
     y \in ScrollYs, h \in InnerHeights :
    /\ caCounters = n
    /\ caHero = hero
    /\ caHeroTop = top
    /\ scrollY = y
    /\ innerHeight = h
    /\ caBound = (n # 0)
    /\ caHasAnimated = FALSE
    /\ caThrottle = FALSE
    /\ caTrailing = FALSE
    /\ caRunning = {}
    /\ caText = [c \in 1..n |-> "markup"]
    /\ caStarts = 0
    /\ caLast = [op |-> "new", checked |-> FALSE, started |-> FALSE]

\* a page without [data-count] elements
NoCounters ==
  /\ caCounters = 0
  /\ caHero = FALSE
  /\ caHeroTop = 0
  /\ caBound = FALSE
  /\ caHasAnimated = FALSE
  /\ caThrottle = FALSE
  /\ caTrailing = FALSE
  /\ caRunning = {}
  /\ caText = <<>>
  /\ caStarts = 0
  /\ caLast = [op |-> "new", checked |-> FALSE, started |-> FALSE]

\* the handler's result becomes the state
CounterCommit(c, op) ==
  /\ caHasAnimated' = c.hasAnimated
  /\ caRunning' = c.running
  /\ caStarts' = c.starts
  /\ caLast' = [op |-> op, checked |-> c.checked, started |-> c.started]
  /\ UNCHANGED <<caCounters, caHero, caHeroTop, caBound>>
  /\ UNCHANGED <<revealTops, revealed, srBound, inThrottle, throttleTrailing,
                 debounceArmed, srLast>>
  /\ UNCHANGED <<sliderVars, saVars, ioVars, rzVars, navVars, formVars>>

\* a scroll event; the listener is throttle(() => this.checkCounters(), 100)
CaScroll ==
  \E y \in ScrollYs :
    /\ scrollY' = y
    /\ UNCHANGED <<innerHeight, caText>>
    /\ IF caBound /\ ~caThrottle
       THEN /\ CounterCommit(checkCounters(CounterObj, y, innerHeight),
                             "scroll")
            /\ caThrottle' = TRUE
            /\ UNCHANGED caTrailing
       ELSE /\ CounterCommit(CounterObj, "scroll")
            /\ caTrailing' = caBound
            /\ UNCHANGED caThrottle

\* the throttle window ends: a trailing call runs if events came inside it
CaThrottleWindowEnd ==
  /\ caThrottle
  /\ UNCHANGED <<scrollY, innerHeight, caText>>
  /\ IF caTrailing
     THEN /\ CounterCommit(checkCounters(CounterObj, scrollY, innerHeight),
                           "throttle trailing")
          /\ caTrailing' = FALSE
          /\ UNCHANGED caThrottle
     ELSE /\ CounterCommit(CounterObj, "throttle end")
          /\ caThrottle' = FALSE
          /\ UNCHANGED caTrailing

\* the window is resized; CounterAnimation has no resize listener
CaResize ==
  \E h \in InnerHeights :
    /\ innerHeight' = h
    /\ CounterCommit(CounterObj, "resize")
    /\ UNCHANGED <<scrollY, caThrottle, caTrailing, caText>>

\* counterAnimation.checkCounters() called on the instance
CallCheckCounters ==
  /\ CounterCommit(checkCounters(CounterObj, scrollY, innerHeight),
                   "checkCounters")
  /\ UNCHANGED <<scrollY, innerHeight, caThrottle, caTrailing, caText>>

\* an animation frame of counter c: before the 2000 ms are over it writes a
\* value on the way and requests the next frame, after them it writes the
\* target and stops
CaAnimationFrame ==
  \E c \in caRunning, done \in BOOLEAN :
    /\ caText' = [caText EXCEPT ![c] = IF done THEN "target" ELSE "partial"]
    /\ CounterCommit([CounterObj EXCEPT
                        !.running = IF done THEN @ \ {c} ELSE @], "frame")
    /\ UNCHANGED <<scrollY, innerHeight, caThrottle, caTrailing>>

\* a page without a testimonial slider
NoSlider ==
  LET m == NewSlider(FALSE, 0, 0, {})
  IN /\ track = m.track
     /\ totalSlides = m.totalSlides
     /\ nDots = m.nDots
     /\ currentSlide = m.currentSlide
     /\ autoPlayInterval = m.autoPlayInterval
     /\ liveTimers = m.liveTimers
     /\ nextTimerId = m.nextTimerId
     /\ trackTransform = m.trackTransform
     /\ activeDots = m.activeDots
     /\ bound = m.bound
     /\ touchStartX = 0
     /\ hovering = FALSE
     /\ last = [op |-> "new", args |-> <<>>, calls |-> m.calls,
                threw |-> m.threw]

\* a page without .reveal elements
NoReveal ==
  /\ revealTops = <<>>
  /\ scrollY = 0
  /\ innerHeight = 200
  /\ revealed = {}
  /\ srBound = FALSE
  /\ inThrottle = FALSE
  /\ throttleTrailing = FALSE
  /\ debounceArmed = FALSE
  /\ srLast = [op |-> "new", pass |-> FALSE, was |-> {}]

(***************************************************************************)
(* Specifications                                                          *)
(***************************************************************************)
\* none of the components other than the slider and ScrollReveal
NoLater == ResizeIdle /\ NavIdle /\ NoForm /\ NoCounters

NoExtras == NoScrollAnim /\ NoObserver /\ NoLater

Init == SliderInit /\ NoReveal /\ NoExtras

\* the page as wired: user events and timer ticks
Next ==
  \/ ClickPrev
  \/ ClickNext
  \/ ClickDot
  \/ MouseEnter
  \/ MouseLeave
  \/ TouchStart
  \/ TouchEnd
  \/ TimerTick

Spec == Init /\ [][Next]_vars

\* the slider as a component: its public methods called directly, plus the
\* mouse events and timer ticks
ApiNext ==
  \/ CallNextSlide
  \/ CallPrevSlide
  \/ CallGoToSlide
  \/ CallHandleSwipe
  \/ CallStartAutoPlay
  \/ CallStopAutoPlay
  \/ MouseEnter
  \/ MouseLeave
  \/ TimerTick

ApiSpec == Init /\ [][ApiNext]_vars

\* the ScrollReveal component under scroll and resize events
RevealInitPage == RevealInit /\ NoSlider /\ NoExtras

RevealNext ==
  \/ Scroll
  \/ ThrottleWindowEnd
  \/ Resize
  \/ DebounceFire
  \/ RefreshAnimations

RevealSpec == RevealInitPage /\ [][RevealNext]_vars

\* the ScrollAnimationController under scroll and resize events
ScrollAnimInitPage ==
  /\ ScrollAnimInit
  /\ NoSlider
  /\ revealTops = <<>> /\ revealed = {} /\ srBound = FALSE
  /\ inThrottle = FALSE /\ throttleTrailing = FALSE /\ debounceArmed = FALSE
  /\ srLast = [op |-> "new", pass |-> FALSE, was |-> {}]
  /\ NoObserver
  /\ NoLater

ScrollAnimNext ==
  \/ SaScroll
  \/ SaThrottleWindowEnd
  \/ SaResize
  \/ SaDebounceFire
  \/ SaAnimationTimeout

ScrollAnimSpec == ScrollAnimInitPage /\ [][ScrollAnimNext]_vars

\* the IntersectionAnimationController under observer notifications and
\* its fallback timeouts; a timeout that is due fires
ObserverInitPage ==
  ObserverInit /\ NoSlider /\ NoReveal /\ NoScrollAnim /\ NoLater

ObserverNext ==
  \/ ObserverNotify
  \/ FallbackTimeout

ObserverSpec ==
  ObserverInitPage /\ [][ObserverNext]_vars /\ WF_vars(FallbackTimeout)

\* the page has no slider markup, no .reveal element, no [data-aos] element,
\* no IntersectionAnimationController
SliderAbsent == ~track /\ totalSlides = 0 /\ nDots = 0
RevealAbsent == revealTops = <<>>
ScrollAnimAbsent == saTops = <<>>
ObserverAbsent == ~ioObserver /\ ioSupported

\* a page that holds one of the four components; the events of a component
\* are followed on the pages where the other three are absent
PageInit ==
  \/ Init
  \/ RevealInitPage
  \/ ScrollAnimInitPage
  \/ ObserverInitPage

OnlySlider == RevealAbsent /\ ScrollAnimAbsent /\ ObserverAbsent
OnlyReveal == SliderAbsent /\ ScrollAnimAbsent /\ ObserverAbsent
OnlyScrollAnim == SliderAbsent /\ RevealAbsent /\ ObserverAbsent
OnlyObserver == SliderAbsent /\ RevealAbsent /\ ScrollAnimAbsent

PageNext ==
  \/ OnlySlider /\ ClickPrev
  \/ OnlySlider /\ ClickNext
  \/ OnlySlider /\ ClickDot
  \/ OnlySlider /\ MouseEnter
  \/ OnlySlider /\ MouseLeave
  \/ OnlySlider /\ TouchStart
  \/ OnlySlider /\ TouchEnd
  \/ OnlySlider /\ TimerTick
  \/ OnlyReveal /\ Scroll
  \/ OnlyReveal /\ ThrottleWindowEnd
  \/ OnlyReveal /\ Resize
  \/ OnlyReveal /\ DebounceFire
  \/ OnlyReveal /\ RefreshAnimations
  \/ OnlyScrollAnim /\ SaScroll
  \/ OnlyScrollAnim /\ SaThrottleWindowEnd
  \/ OnlyScrollAnim /\ SaResize
  \/ OnlyScrollAnim /\ SaDebounceFire
  \/ OnlyScrollAnim /\ SaAnimationTimeout
  \/ OnlyObserver /\ ObserverNotify
  \/ OnlyObserver /\ FallbackTimeout

PageSpec == PageInit /\ [][PageNext]_vars

\* no slider and none of the three reveal components
NoCore == NoSlider /\ NoReveal /\ NoScrollAnim /\ NoObserver

\* the application's resize handler under resize events and passing time
ResizeInitPage == ResizeInit /\ NoCore /\ NavIdle /\ NoForm /\ NoCounters

ResizeNext ==
  \/ AppResize
  \/ AppResizeTimeout
  \/ AppTimePasses

ResizeSpec == ResizeInitPage /\ [][ResizeNext]_vars

\* the navigation under clicks and the Escape key
NavInitPage == NavInit /\ NoCore /\ ResizeIdle /\ NoForm /\ NoCounters

NavNext ==
  \/ NavToggleClick
  \/ NavLinkClick
  \/ NavOutsideClick
  \/ NavEscape

NavSpec == NavInitPage /\ [][NavNext]_vars

\* a form with its FormHandler under submit events, settling submissions
\* and the user's edits
FormInitPage == FormInit /\ NoCore /\ ResizeIdle /\ NavIdle /\ NoCounters

FormNext ==
  \/ FormSubmit
  \/ FormSettle
  \/ FormInput
  \/ FormBlur

FormSpec == FormInitPage /\ [][FormNext]_vars

\* the navigation as a component: its two menu methods called directly,
\* plus the page's clicks and the Escape key
NavApiNext ==
  \/ CallToggleMobileMenu
  \/ CallCloseMobileMenu
  \/ NavToggleClick
  \/ NavLinkClick
  \/ NavOutsideClick
  \/ NavEscape

NavApiSpec == NavInitPage /\ [][NavApiNext]_vars

\* the CounterAnimation under scroll and resize events, direct
\* checkCounters() calls and animation frames
CounterInitPage ==
  /\ CounterInit
  /\ NoSlider
  /\ revealTops = <<>> /\ revealed = {} /\ srBound = FALSE
  /\ inThrottle = FALSE /\ throttleTrailing = FALSE /\ debounceArmed = FALSE
  /\ srLast = [op |-> "new", pass |-> FALSE, was |-> {}]
  /\ NoScrollAnim
  /\ NoObserver
  /\ ResizeIdle /\ NavIdle /\ NoForm

CounterNext ==
  \/ CaScroll
  \/ CaThrottleWindowEnd
  \/ CaResize
  \/ CallCheckCounters
  \/ CaAnimationFrame

CounterSpec == CounterInitPage /\ [][CounterNext]_vars

(***************************************************************************)
(* Reading the history variable                                            *)
(***************************************************************************)
Count(seq, x) == Cardinality({i \in DOMAIN seq : seq[i] = x})

\* the handler that ran last invoked method x
Called(x) == Count(last.calls, x) > 0

\* the method the last handler entered first ("" when none ran)
FirstCall(l) == IF l.calls = <<>> THEN "" ELSE l.calls[1]

ValidIndex(i) == i \in 0..(totalSlides - 1)

(***************************************************************************)
(* C1: every nextSlide()/prevSlide() call made by the page's listeners and *)
(* the autoplay timer leaves currentSlide in 0..N-1; from a valid index    *)
(* nextSlide steps by one and wraps N-1 -> 0, prevSlide steps back by one  *)
(* and wraps 0 -> N-1.                                                     *)
(***************************************************************************)
C1_NextPrevStayInRange ==
  [][ /\ (Count(last'.calls, "nextSlide") + Count(last'.calls, "prevSlide") > 0)
           => currentSlide' \in 0..(totalSlides - 1)
      /\ (Count(last'.calls, "nextSlide") > 0 /\ ValidIndex(currentSlide))
           => currentSlide' =
                IF currentSlide = totalSlides - 1 THEN 0 ELSE currentSlide + 1
      /\ (Count(last'.calls, "prevSlide") > 0 /\ ValidIndex(currentSlide))
           => currentSlide' =
                IF currentSlide = 0 THEN totalSlides - 1 ELSE currentSlide - 1
    ]_vars

\* prevSlide has just wrapped a deck of MaxSlides slides to its last slide
C1_Witness ==
  /\ last.op = "click prev"
  /\ Called("prevSlide")
  /\ totalSlides = MaxSlides
  /\ currentSlide = totalSlides - 1

(***************************************************************************)
(* C2: after goToSlide(i) on a deck of N >= 1 slides, currentSlide is      *)
(* i mod N, a valid index.  Stated for a deck with its track, where the    *)
(* call returns.  The code stores i as it is (components.js 179).          *)
(***************************************************************************)
C2_GoToNormalises ==
  (FirstCall(last) = "goToSlide" /\ track /\ totalSlides >= 1)
    => /\ currentSlide = last.args[1] % totalSlides
       /\ ValidIndex(currentSlide)

(***************************************************************************)
(* C3: at most one autoplay interval timer is live, it is the one the      *)
(* slider holds in autoPlayInterval, a startAutoPlay() leaves exactly one  *)
(* live timer, and a tick of it calls nextSlide() once.                    *)
(***************************************************************************)
C3_AtMostOneTimer ==
  /\ Cardinality(liveTimers) <= 1
  /\ liveTimers = (IF autoPlayInterval = 0 THEN {} ELSE {autoPlayInterval})
  /\ Called("startAutoPlay") => Cardinality(liveTimers) = 1
  /\ last.op = "tick" => Count(last.calls, "nextSlide") = 1

\* startAutoPlay() called directly twice on a deck that armed no timer of
\* its own at construction: the second call cancelled the first call's timer
C3_Witness ==
  /\ ~bound
  /\ last.op = "startAutoPlay()"
  /\ Called("clearInterval")
  /\ liveTimers = {2}

(***************************************************************************)
(* C4: while no timer is held (after stopAutoPlay(), until the next        *)
(* startAutoPlay()) no timer tick happens; stopAutoPlay() leaves no timer  *)
(* armed, and with no timer armed it changes nothing.                      *)
(***************************************************************************)
C4_StopSilencesTimer ==
  [][ /\ autoPlayInterval = 0 => last'.op # "tick"
      /\ FirstCall(last') = "stopAutoPlay"
           => autoPlayInterval' = 0 /\ liveTimers' = {}
      /\ (FirstCall(last') = "stopAutoPlay" /\ autoPlayInterval = 0)
           => UNCHANGED <<track, totalSlides, nDots, currentSlide,
                          autoPlayInterval, liveTimers, nextTimerId,
                          trackTransform, activeDots, bound, touchStartX>>
    ]_vars

\* stopAutoPlay() has just cancelled an armed timer
C4_Witness ==
  /\ last.op = "stopAutoPlay()"
  /\ Called("clearInterval")
  /\ autoPlayInterval = 0
  /\ liveTimers = {}

(***************************************************************************)
(* C5: handleSwipe(startX, endX), diff = startX - endX: one nextSlide()    *)
(* call when diff > 50, one prevSlide() call when diff < -50, and no       *)
(* navigation (index and rendered state unchanged) when |diff| <= 50.      *)
(***************************************************************************)
C5_SwipeThreshold ==
  [][ FirstCall(last') = "handleSwipe" =>
        LET diff == last'.args[1] - last'.args[2]
            nexts == Count(last'.calls, "nextSlide")
            prevs == Count(last'.calls, "prevSlide")
        IN /\ diff > 50 => nexts = 1 /\ prevs = 0
           /\ diff < 0 - 50 => nexts = 0 /\ prevs = 1
           /\ (diff >= 0 - 50 /\ diff <= 50) =>
                /\ nexts = 0 /\ prevs = 0
                /\ UNCHANGED <<currentSlide, trackTransform, activeDots>>
    ]_vars

\* handleSwipe(50, 0): diff is exactly the threshold and nothing was called
C5_Witness ==
  /\ last.op = "handleSwipe()"
  /\ last.args = <<50, 0>>
  /\ last.calls = <<"handleSwipe">>

(***************************************************************************)
(* C6: with zero slides every navigation operation is a no-op: the index   *)
(* keeps its initial value 0 and nothing is rendered.  Stated for a deck   *)
(* with its track, where the calls return.  nextSlide() and prevSlide()    *)
(* compute x % 0 (components.js 185, 191).                                 *)
(***************************************************************************)
C6_ZeroSlidesNoOp ==
  (totalSlides = 0 /\ track) =>
    /\ currentSlide = 0
    /\ trackTransform = <<>>
    /\ ~Called("updateSlider") /\ ~Called("updateDots")

(***************************************************************************)
(* C7: once a navigation operation has returned, the track offset is       *)
(* -currentSlide * 100 percent and dot k is active iff k = currentSlide,   *)
(* and this stays so whatever runs next.                                   *)
(***************************************************************************)
NavReturned ==
  /\ Called("goToSlide") \/ Called("nextSlide") \/ Called("prevSlide")
  /\ ~last.threw

C8_GoToKeepsAutoplay ==
  [][ FirstCall(last') = "goToSlide" =>
        /\ UNCHANGED <<autoPlayInterval, liveTimers, nextTimerId>>
        /\ Count(last'.calls, "clearInterval") = 0
        /\ Count(last'.calls, "setInterval") = 0
    ]_vars

\* goToSlide(1) ran while the autoplay timer was armed
C8_Witness ==
  /\ FirstCall(last) = "goToSlide"
  /\ last.args = <<1>>
  /\ autoPlayInterval # 0
  /\ liveTimers = {autoPlayInterval}

(***************************************************************************)
(* C9: on a slider whose listeners are bound, from a mouseenter on the     *)
(* track to the next mouseleave no timer is armed and no tick happens,     *)
(* whatever clicks and swipes come in between; the mouseleave arms a timer.*)
(***************************************************************************)
C9_HoverPausesAutoplay ==
  [][ /\ (bound /\ hovering') => autoPlayInterval' = 0 /\ liveTimers' = {}
      /\ (bound /\ hovering /\ hovering') => last'.op # "tick"
      /\ (bound /\ last'.op = "mouseleave")
           => autoPlayInterval' # 0 /\ liveTimers' = {autoPlayInterval'}
    ]_vars

\* a click on "next" moved the deck while the pointer was over the track
C9_Witness ==
  /\ bound
  /\ hovering
  /\ last.op = "click next"
  /\ currentSlide = 1
  /\ autoPlayInterval = 0

(***************************************************************************)
(* C10: a checkElements() pass marks every element inside the visibility   *)
(* threshold as revealed, and a later pass changes nothing on an element   *)
(* that is already revealed: the class set after a pass is the set before  *)
(* it plus the elements in view.  A direct pass schedules nothing: the      *)
(* throttle window and the debounce timeout are as they were.              *)
(***************************************************************************)
InView == {e \in DOMAIN revealTops :
             isInViewport(revealTops, scrollY, innerHeight, e, 50)}

C10_OneShotReveal ==
  /\ [](srLast.pass =>
          /\ \A e \in InView : e \in revealed
          /\ \A e \in srLast.was : e \in revealed
          /\ revealed \subseteq srLast.was \cup InView)
  /\ [][srLast'.op = "refreshAnimations" =>
          UNCHANGED <<inThrottle, throttleTrailing, debounceArmed>>]_vars

\* a second pass ran over an element that is in view and was revealed before
C10_Witness ==
  /\ srLast.op = "refreshAnimations"
  /\ \E e \in InView : e \in srLast.was /\ e \in revealed


\* the [data-aos] elements inside the controller's visibility window now
SaInView ==
  {e \in DOMAIN saTops : SAC_isInViewport(saTops, scrollY, innerHeight, e)}

(***************************************************************************)
(* C12: ScrollAnimationController is repeatable: every checkElements()     *)
(* pass calls animateElement (one more timeout) for each element inside    *)
(* the visibility window, also for an element that was triggered before,   *)
(* left the window and came back, and for one that already carries         *)
(* 'aos-animate'; nothing suppresses re-triggering.                        *)
(***************************************************************************)
C12_RepeatableRetrigger ==
  saLast.pass =>
    \A e \in SaInView : e \in saLast.triggered /\ saPending[e] >= 1

\* a pass re-triggered an animated element that had left the window
C12_Witness ==
  /\ saLast.pass
  /\ \E e \in SaInView :
       e \in saLeft /\ e \in saAnimated /\ e \in saLast.triggered


\* how many times the reveal of element e has been triggered
IoTriggers(e) == Cardinality({i \in DOMAIN ioLog : ioLog[i].el = e})

(***************************************************************************)
(* C13: with IntersectionObserver present, an entry with isIntersecting    *)
(* true reveals its target once and unobserves it in the same callback;    *)
(* an entry with isIntersecting false triggers nothing and leaves the      *)
(* target observed and hidden; so every element is triggered at most       *)
(* once, and is observed exactly as long as it has not been triggered.     *)
(* A notification carries at most one entry for a target.                  *)
(***************************************************************************)
C13_TriggerOnceThenUnobserve ==
  ioSupported =>
    /\ \A e \in DOMAIN ioStyle :
         /\ IoTriggers(e) <= 1
         /\ e \in ioObserved <=> IoTriggers(e) = 0
    /\ ioLast.op = "callback" =>
         \A e \in DOMAIN ioLast.entries :
           IF ioLast.entries[e]
           THEN /\ e \notin ioObserved
                /\ IoTriggers(e) = 1
                /\ ioStyle[e] = StyleRevealed
           ELSE /\ e \in ioObserved
                /\ IoTriggers(e) = 0
                /\ ioStyle[e] = StyleHidden

\* a notification with an intersecting and a non-intersecting entry, after
\* an earlier one had revealed another element
C13_Witness ==
  /\ ioSupported
  /\ ioLast.op = "callback"
  /\ \E a, b \in DOMAIN ioLast.entries :
       ioLast.entries[a] /\ ~ioLast.entries[b]
  /\ \E c \in DOMAIN ioStyle :
       c \notin DOMAIN ioLast.entries /\ IoTriggers(c) = 1

(***************************************************************************)
(* C14: without IntersectionObserver no observer is created and nothing    *)
(* is observed; the element at position k (from 0) is revealed by a        *)
(* timeout at k * 200 ms, so the reveals come in element order, 200 ms     *)
(* apart; and every element is eventually revealed and stays revealed.     *)
(***************************************************************************)
C14_FallbackStaggered ==
  /\ [](~ioSupported =>
          /\ ~ioObserver
          /\ ioObserved = {}
          /\ \A e \in DOMAIN ioTimers : ioTimers[e] = (e - 1) * 200
          /\ \A i \in DOMAIN ioLog :
               ioLog[i] = [el |-> i, at |-> (i - 1) * 200])
  /\ <>[](~ioSupported =>
            \A e \in DOMAIN ioStyle : ioStyle[e] = StyleRevealed)

\* the fallback has revealed three or more elements
C14_Witness ==
  /\ ~ioSupported
  /\ Len(ioLog) >= 3
  /\ Len(ioLog) = Len(ioStyle)
  /\ \A e \in DOMAIN ioStyle : ioStyle[e] = StyleRevealed


(***************************************************************************)
(* C11: a one-shot reveal is never reverted: no step (scroll, resize,      *)
(* wrapper timeout, direct pass, observer callback, fallback timeout)      *)
(* takes class 'revealed' from a ScrollReveal element or moves the         *)
(* opacity of an IntersectionAnimationController element away from '1'.    *)
(***************************************************************************)
C11_RevealedIsMonotonic ==
  [][/\ revealed \subseteq revealed'
     /\ \A e \in DOMAIN ioStyle :
          ioStyle[e].opacity = "1" => ioStyle'[e].opacity = "1"]_vars

\* an observer callback ran while an element revealed earlier was on the
\* page and other elements were still observed
C11_Witness ==
  /\ ioLast.op = "callback"
  /\ ioObserved # {}
  /\ \E e \in DOMAIN ioStyle :
       e \notin DOMAIN ioLast.entries /\ ioStyle[e].opacity = "1"


(***************************************************************************)
(* C15: at most one visibility pass per rate-limiter interval: while the   *)
(* 100 ms window opened by a scroll pass is open, no step runs another     *)
(* pass; the one pass allowed is the trailing call that ends the window.   *)
(***************************************************************************)
C15_OnePassPerInterval ==
  [][(inThrottle /\ srLast'.pass) => srLast'.op = "throttle trailing"]_vars


(***************************************************************************)
(* C16: the application's resize handling is debounced: at most one        *)
(* timeout is live, the one set by the most recent resize event and due    *)
(* 250 ms after it; after a resize event handleResize() has not run        *)
(* until those 250 ms have passed without another resize event, and has    *)
(* run exactly once from then on.                                          *)
(***************************************************************************)
C16_ResizeDebounced ==
  /\ Cardinality(rzLive) <= 1
  /\ \A t \in rzLive : t.id = rzTimeout /\ t.due = rzLastResize + 250
  /\ rzLastResize >= 0 =>
       \/ /\ rzRuns = 0
          /\ rzLive # {}
          /\ rzNow <= rzLastResize + 250
       \/ /\ rzRuns = 1
          /\ rzLive = {}
          /\ rzNow >= rzLastResize + 250
  /\ rzLast.op = "handleResize" => rzRuns = 1 /\ rzNow = rzLastResize + 250

\* handleResize() has run after a burst of three resize events that began
\* at time 0 and whose last event came 200 ms or more after the first
C16_Witness ==
  /\ rzLast.op = "handleResize"
  /\ rzTimeout = 3
  /\ rzLastResize >= 200
  /\ rzLastResize <= 400


(***************************************************************************)
(* C17: a component whose DOM targets are missing does nothing at          *)
(* construction and stays inert under the page's events. A                 *)
(* TestimonialsSlider without track or without cards has no listeners      *)
(* bound, no timer armed, has thrown nothing and has run none of its       *)
(* methods; a ScrollReveal or ScrollAnimationController without elements   *)
(* has no listeners bound, so no wrapper is ever armed, and runs no pass   *)
(* of its own (the one pass a ScrollReveal can run is the application's    *)
(* direct refreshAnimations() call, over no elements).                     *)
(***************************************************************************)
C17_MissingTargetsNoOp ==
  /\ (~track \/ totalSlides = 0) =>
       /\ ~bound
       /\ autoPlayInterval = 0
       /\ liveTimers = {}
       /\ ~last.threw
       /\ last.calls = <<>>
  /\ revealTops = <<>> =>
       /\ ~srBound
       /\ ~inThrottle /\ ~throttleTrailing /\ ~debounceArmed
       /\ srLast.pass => srLast.op = "refreshAnimations"
       /\ revealed = {}
  /\ saTops = <<>> =>
       /\ ~saBound
       /\ ~saThrottle /\ ~saTrailing /\ ~saDebounce
       /\ ~saLast.pass
       /\ saAnimated = {}

\* the page without slider markup, .reveal or [data-aos] elements, after a
\* click on 'next', a scroll and a resize event
C17_Witness ==
  /\ ~track /\ totalSlides = 0
  /\ revealTops = <<>>
  /\ saTops = <<>>
  /\ last.op = "click next"
  /\ srLast.op = "scroll"
  /\ saLast.op = "resize"


\* href begins with '#'
IsHash(href) == Len(href) > 0 /\ href[1] = "#"

(***************************************************************************)
(* C18: a click on a nav link whose target begins with '#' is handled      *)
(* without an error: the handler calls preventDefault, navigateToSection   *)
(* and closeMobileMenu, and the mobile menu is closed afterwards.          *)
(***************************************************************************)
C18_HashLinkNavigates ==
  (navLast.op = "click link" /\ IsHash(navLast.href)) =>
    /\ ~navLast.threw
    /\ navLast.prevented
    /\ \E i \in DOMAIN navLast.calls : navLast.calls[i] = "navigateToSection"
    /\ \E i \in DOMAIN navLast.calls : navLast.calls[i] = "closeMobileMenu"
    /\ ~menuActive /\ ~toggleActive /\ ~bodyMenuOpen


\* the [required] fields that are empty or fail the format test of their type
InvalidRequired ==
  {i \in DOMAIN fFields :
     /\ fFields[i].required
     /\ \/ fValues[i] = "empty"
        \/ fFields[i].type \in {"email", "tel"} /\ fValues[i] = "bad"}

(***************************************************************************)
(* C19: a submit event on a form with an invalid required field stops      *)
(* before submission: submitForm, setSubmitState and showMessage are not   *)
(* called, so nothing new is in flight, the button keeps its disabled      *)
(* state and label, no toast appears, the values are not reset and         *)
(* nothing is thrown; the invalid required fields carry an error marker.   *)
(***************************************************************************)
C19_InvalidStopsSubmit ==
  [][(fLast'.op = "submit" /\ InvalidRequired # {}) =>
       /\ UNCHANGED <<fInFlight, fDisabled, fLabel, fValues>>
       /\ fLast'.toast = "" /\ ~fLast'.reset /\ ~fLast'.threw
       /\ \A k \in DOMAIN fLast'.calls :
            fLast'.calls[k] \notin
              {"submitForm", "setSubmitState", "showMessage"}
       /\ InvalidRequired \subseteq fErrors']_vars

\* a submit event stopped by validation while an earlier submission was in
\* flight and the button disabled
C19_Witness ==
  /\ fLast.op = "submit"
  /\ InvalidRequired # {}
  /\ InvalidRequired \subseteq fErrors
  /\ \A k \in DOMAIN fLast.calls : fLast.calls[k] # "submitForm"
  /\ fInFlight = 1
  /\ fDisabled

(***************************************************************************)
(* C20: the submit button is disabled exactly while a submitForm() call    *)
(* is in flight: disabled whenever one or more are unsettled, enabled      *)
(* once all have settled.                                                  *)
(***************************************************************************)
C20_DisabledWhileInFlight ==
  fButton => (fDisabled <=> fInFlight > 0)


(***************************************************************************)
(* C21: after any sequence of toggleMobileMenu() and closeMobileMenu()     *)
(* calls from the closed state the three menu flags agree (#nav-menu has   *)
(* 'active' iff #nav-toggle has 'active' iff body has 'menu-open'), and    *)
(* a closeMobileMenu() call ends in the closed state.                      *)
(***************************************************************************)
C21_MenuFlagsAgree ==
  /\ menuActive <=> toggleActive
  /\ toggleActive <=> bodyMenuOpen
  /\ navLast.op \in {"closeMobileMenu", "click outside", "escape"} =>
       ~menuActive /\ ~toggleActive /\ ~bodyMenuOpen


\* .hero-stats is inside the window now
HeroInView ==
  caHero /\ isInViewport(<<caHeroTop>>, scrollY, innerHeight, 1, 100)

(***************************************************************************)
(* C22: a CounterAnimation starts the counter animation at most once:      *)
(* animateCounters() has been called once exactly when hasAnimated is      *)
(* true; once hasAnimated is true no step makes it false again or calls    *)
(* animateCounters() another time.                                         *)
(***************************************************************************)
C22_AnimateAtMostOnce ==
  /\ [](caStarts <= 1 /\ (caHasAnimated <=> caStarts = 1))
  /\ [][caHasAnimated =>
          /\ caHasAnimated'
          /\ caStarts' = caStarts
          /\ ~caLast'.started]_vars

\* after the animation had started and finished, a scroll event ran
\* checkCounters() with .hero-stats in view, and it started nothing
C22_Witness ==
  /\ caHasAnimated
  /\ caLast.op = "scroll"
  /\ caLast.checked
  /\ ~caLast.started
  /\ HeroInView
  /\ caRunning = {}
  /\ caCounters >= 2

=============================================================================
